---------------------------- MODULE Spec2Model ----------------------------
(***************************************************************************)
(* Verification model of the game-decider backend: the compatibility       *)
(* scoring service (app/services/compatibility.py) and the curated game    *)
(* library endpoint (app/api/v1/endpoints/games.py).                       *)
(*                                                                         *)
(* Conventions.  An Optional[T] field is a set: {} is None, {v} is the     *)
(* value v.  Floats that the code only adds in steps of 0.5 are kept in    *)
(* eighths (8 is 1.0, 4 is 0.5); complexity ratings are kept in tenths     *)
(* (25 is 2.5) and their means as exact fractions.                         *)
(*                                                                         *)
(* Environment.  Every await of get_curated_games is a step of its own.    *)
(* Games can be deleted (delete_game) between any two steps of a running   *)
(* request; games are created and history rows imported between requests. *)
(* The played-games query has no ORDER BY: it returns its rows in any      *)
(* order.  Any catalog query may raise; the endpoints catch nothing, so    *)
(* the exception ends the request.                                         *)
(***************************************************************************)
EXTENDS Integers, Sequences, FiniteSets, TLC

VARIABLES
    game,           \* the Game handed to calculate_compatibility
    preferences,    \* the PlayerPreferences handed to calculate_compatibility
    response,       \* {} before the call, {CompatibilityResponse} after it
    games,          \* table games: id -> row, for the stored ids
    history,        \* table player_game_history joined with players
    pc,             \* where the get_curated_games request stands
    skip,           \* its query parameter skip
    limit,          \* its query parameter limit
    played_games_data,      \* rows of the played-games query
    similar_games_needed,
    window,         \* {} or the similarity window it computed
    similar_game_ids,
    paginated_game_ids,
    fetched,        \* how many of paginated_game_ids were looked up
    curated,        \* the games collected for the response
    queries,        \* the catalog queries the running request has issued
    count_response, \* {} or the dict get_curated_games_count returns
    first_page,     \* {} or the previous response of get_curated_games
    game_categories,        \* association table game_categories
    player_preferences,     \* table player_preferences: a set of rows
    reply,          \* {} or the last HTTP request with its status and detail
    titles,         \* column games.name as text, one entry per stored game
    check_constraints,      \* whether the tables carry their CHECK constraints
    in_flight,      \* the preferences requests being served: name -> state
    game_sessions,  \* table game_sessions: the committed rows
    pending,        \* GameSession objects added to the import's session
    table_data      \* {} or the table the import looked at last

compatVars == <<game, preferences, response>>
catalogVars == <<games, history, game_categories>>
storeVars == <<player_preferences, reply, titles, check_constraints>>
raceVars == <<in_flight>>
importVars == <<game_sessions, pending, table_data>>
requestVars == <<pc, skip, limit, played_games_data, similar_games_needed,
                 window, similar_game_ids, paginated_game_ids, fetched,
                 curated, queries, count_response>>
vars == <<game, preferences, response, games, history, pc, skip, limit,
          played_games_data, similar_games_needed, window, similar_game_ids,
          paginated_game_ids, fetched, curated, queries, count_response,
          first_page, game_categories, player_preferences, reply, titles,
          check_constraints, in_flight, game_sessions, pending, table_data>>

-----------------------------------------------------------------------------
(* Bounds of the compatibility inputs.                                     *)
MaxPlayers == 2
MaxPlayTime == 2
MaxComplexity == 2
NumCategories == 2

(* Optional[T] *)
IsSet(opt) == opt # {}
Get(opt) == CHOOSE v \in opt : TRUE
Optional(S) == {{}} \cup {{v} : v \in S}

CategoryIds == 1..NumCategories

Games ==
  {g \in
    [min_players : 1..MaxPlayers,
     max_players : 1..MaxPlayers,
     average_play_time : 1..MaxPlayTime,
     complexity_rating : 1..MaxComplexity,
     categories : SUBSET CategoryIds] : g.min_players <= g.max_players}

Preferences ==
    [preferred_player_count : Optional(1..(MaxPlayers + 1)),
     minimum_play_time : Optional(1..MaxPlayTime),
     maximum_play_time : Optional(1..MaxPlayTime),
     preferred_complexity_min : Optional(1..MaxComplexity),
     preferred_complexity_max : Optional(1..MaxComplexity),
     preferred_categories : SUBSET CategoryIds]

-----------------------------------------------------------------------------
(* CompatibilityService.calculate_compatibility                            *)

\* score += 1.0, score += 0.5 and max_score = 4.0, in eighths
ONE == 8
HALF == 4
max_score == 4
\* compatibility_score >= 0.75, in eighths
RECOMMENDED_FROM == 6

Factor(s, v) == [score |-> s, verdict |-> v]

\* faulty variants: the neutral half score forgotten; max_players exclusive
player_count_factor_NoHalf(g, p) ==
    IF IsSet(p.preferred_player_count)
    THEN IF g.min_players <= Get(p.preferred_player_count)
            /\ Get(p.preferred_player_count) <= g.max_players
         THEN Factor(ONE, "compatible")
         ELSE Factor(0, "incompatible")
    ELSE Factor(0, "no_preference")

player_count_factor_Exclusive(g, p) ==
    IF IsSet(p.preferred_player_count)
    THEN IF g.min_players <= Get(p.preferred_player_count)
            /\ Get(p.preferred_player_count) < g.max_players
         THEN Factor(ONE, "compatible")
         ELSE Factor(0, "incompatible")
    ELSE Factor(HALF, "no_preference")

player_count_factor(g, p) ==
    IF IsSet(p.preferred_player_count)
    THEN IF g.min_players <= Get(p.preferred_player_count)
            /\ Get(p.preferred_player_count) <= g.max_players
         THEN Factor(ONE, "compatible")
         ELSE Factor(0, "incompatible")
    ELSE Factor(HALF, "no_preference")

\* faulty variant: a single bound is evaluated on its own
play_time_factor_SingleBound(g, p) ==
    IF IsSet(p.minimum_play_time) \/ IsSet(p.maximum_play_time)
    THEN IF /\ \A lo \in p.minimum_play_time : lo <= g.average_play_time
            /\ \A hi \in p.maximum_play_time : g.average_play_time <= hi
         THEN Factor(ONE, "compatible")
         ELSE Factor(0, "incompatible")
    ELSE Factor(HALF, "no_preference")

play_time_factor(g, p) ==
    IF IsSet(p.minimum_play_time) /\ IsSet(p.maximum_play_time)
    THEN IF Get(p.minimum_play_time) <= g.average_play_time
            /\ g.average_play_time <= Get(p.maximum_play_time)
         THEN Factor(ONE, "compatible")
         ELSE Factor(0, "incompatible")
    ELSE Factor(HALF, "no_preference")

\* faulty variant: the upper bound taken as exclusive
complexity_factor_Exclusive(g, p) ==
    IF IsSet(p.preferred_complexity_min) /\ IsSet(p.preferred_complexity_max)
    THEN IF Get(p.preferred_complexity_min) <= g.complexity_rating
            /\ g.complexity_rating < Get(p.preferred_complexity_max)
         THEN Factor(ONE, "compatible")
         ELSE Factor(0, "incompatible")
    ELSE Factor(HALF, "no_preference")

complexity_factor(g, p) ==
    IF IsSet(p.preferred_complexity_min) /\ IsSet(p.preferred_complexity_max)
    THEN IF Get(p.preferred_complexity_min) <= g.complexity_rating
            /\ g.complexity_rating <= Get(p.preferred_complexity_max)
         THEN Factor(ONE, "compatible")
         ELSE Factor(0, "incompatible")
    ELSE Factor(HALF, "no_preference")

\* faulty variants: every preferred category required; no preference
\* scored 1.0
categories_factor_All(g, p) ==
    IF p.preferred_categories # {}
    THEN IF p.preferred_categories \subseteq g.categories
         THEN Factor(ONE, "compatible")
         ELSE Factor(0, "incompatible")
    ELSE Factor(HALF, "no_preference")

categories_factor_NoPreferenceFull(g, p) ==
    IF p.preferred_categories # {}
    THEN IF g.categories \cap p.preferred_categories # {}
         THEN Factor(ONE, "compatible")
         ELSE Factor(0, "incompatible")
    ELSE Factor(ONE, "no_preference")

categories_factor(g, p) ==
    IF p.preferred_categories # {}
    THEN IF g.categories \cap p.preferred_categories # {}
         THEN Factor(ONE, "compatible")
         ELSE Factor(0, "incompatible")
    ELSE Factor(HALF, "no_preference")

\* faulty variant: the threshold taken as exclusive
recommendation_of_Exclusive(compatibility_score) ==
    IF compatibility_score > RECOMMENDED_FROM
    THEN "recommended"
    ELSE "not_recommended"

recommendation_of(compatibility_score) ==
    IF compatibility_score >= RECOMMENDED_FROM
    THEN "recommended"
    ELSE "not_recommended"

calculate_compatibility(g, p) ==
    LET pl == player_count_factor(g, p)
        pt == play_time_factor(g, p)
        cx == complexity_factor(g, p)
        ca == categories_factor(g, p)
        score == pl.score + pt.score + cx.score + ca.score
        compatibility_score == score \div max_score
    IN  [compatibility_score |-> compatibility_score,
         recommendation |-> recommendation_of(compatibility_score),
         details |-> [player_count |-> pl.verdict,
                      play_time |-> pt.verdict,
                      complexity |-> cx.verdict,
                      categories |-> ca.verdict]]

-----------------------------------------------------------------------------
(* The catalog: tables games and player_game_history (joined with players) *)

\* Bounds of the curated-library model.
MaxHistory == 2
MaxSkip == 1
MaxLimit == 3

\* Game ids are UUIDs; the name of a game is what ORDER BY Game.name sorts
\* on, here the rank of the name among the names of the catalog.
GameIds == {"g1", "g2", "g3"}
NameOf == [g1 |-> 2, g2 |-> 3, g3 |-> 1]

REAL_PLAYERS == {"dandam", "superoogie", "permagoof", "gundlach"}
Usernames == {"dandam", "guest"}

\* Attribute values of stored games (GameBase: players 1..10, minutes
\* 5..240, complexity 1.0..5.0 in tenths): a base game and the games that
\* differ from it in one attribute.
BaseAttrs ==
    [min_players |-> 3, max_players |-> 4, average_play_time |-> 60,
     complexity_rating |-> 15]
AttrValues ==
    [min_players : {1, 3}, max_players : {4, 7},
     average_play_time : {20, 60, 160}, complexity_rating : {15, 45}]
Differing(a, b) ==
    {f \in {"min_players", "max_players", "average_play_time",
            "complexity_rating"} : a[f] # b[f]}
GameAttrs == {a \in AttrValues : Cardinality(Differing(a, BaseAttrs)) <= 1}

GameRow(id, a) ==
    [id |-> id, name |-> NameOf[id], min_players |-> a.min_players,
     max_players |-> a.max_players,
     average_play_time |-> a.average_play_time,
     complexity_rating |-> a.complexity_rating]

StoredIds == DOMAIN games
Restrict(f, S) == [x \in S |-> f[x]]

Min(a, b) == IF a <= b THEN a ELSE b
Max(a, b) == IF a >= b THEN a ELSE b

\* Python's int() of a non-negative quotient a / b
IntOf(a, b) == IF a >= 0 THEN a \div b ELSE 0 - ((0 - a) \div b)

\* seq[skip : skip + limit]
Slice(seq, sk, lim) ==
    SubSeq(seq, sk + 1, Min(Len(seq), sk + lim))

\* the first n elements
Limit(seq, n) == SubSeq(seq, 1, Min(Len(seq), n))

Range(seq) == {seq[i] : i \in DOMAIN seq}

\* every order in which a query without ORDER BY may return the rows
AnyOrder(S) ==
    {seq \in [1..Cardinality(S) -> S] : Range(seq) = S}

\* ORDER BY Game.name over a set of ids
RECURSIVE OrderByName(_)
OrderByName(ids) ==
    IF ids = {} THEN <<>>
    ELSE LET first == CHOOSE g \in ids :
                        \A h \in ids : games[g].name <= games[h].name
         IN  <<first>> \o OrderByName(ids \ {first})

\* sum(row[f] for row in rows)
RECURSIVE Sum(_, _)
Sum(rows, f) ==
    IF rows = <<>> THEN 0 ELSE Head(rows)[f] + Sum(Tail(rows), f)

-----------------------------------------------------------------------------
(* Catalog writes: GameRepository.create and delete, and the history rows  *)
(* the BGA import stores.                                                  *)

CatalogInit ==
    /\ games = <<>>
    /\ history = {}
    /\ game_categories = {}

CreateGame(id, a) ==
    /\ id \notin StoredIds
    /\ games' = [x \in StoredIds \cup {id} |->
                    IF x = id THEN GameRow(id, a) ELSE games[x]]
    /\ UNCHANGED <<history, game_categories>>

\* ondelete CASCADE removes the history rows of the game
DeleteGame(id) ==
    /\ id \in StoredIds
    /\ games' = Restrict(games, StoredIds \ {id})
    /\ history' = {h \in history : h.game_id # id}
    /\ game_categories' = {c \in game_categories : c.game_id # id}

ImportHistory(username, id) ==
    /\ id \in StoredIds
    /\ Cardinality(history) < MaxHistory
    /\ history' = history \cup {[username |-> username, game_id |-> id]}
    /\ UNCHANGED <<games, game_categories>>

-----------------------------------------------------------------------------
(* get_curated_games                                                       *)

\* select(Game.id, ...).join(PlayerGameHistory).join(Player)
\*   .where(Player.username.in_(REAL_PLAYERS)).distinct()
PlayedRows ==
    {games[h.game_id] : h \in {r \in history : r.username \in REAL_PLAYERS}}

Ids(rows) == [i \in DOMAIN rows |-> rows[i].id]

\* a / b rounded to the nearest whole number, a fraction of one half or
\* more going up
Round(a, b) == IF 2 * (a % b) >= b THEN (a \div b) + 1 ELSE a \div b

\* faulty variant: round() in place of int()
SimilarityWindow_Rounded(rows) ==
    LET n == Len(rows)
    IN  [min_players_range |-> Max(1, Round(Sum(rows, "min_players"), n) - 1),
         max_players_range |->
             Min(10, Round(Sum(rows, "max_players"), n) + 2),
         min_time_range |->
             Max(15, Round(Sum(rows, "average_play_time"), 2 * n)),
         max_time_range |->
             Min(300, Round(2 * Sum(rows, "average_play_time"), n)),
         min_complexity |->
             Max(10 * n, Sum(rows, "complexity_rating") - 10 * n),
         max_complexity |->
             Min(50 * n, Sum(rows, "complexity_rating") + 10 * n),
         n |-> n]

\* faulty variant: the bounds are not clamped to the valid domain
SimilarityWindow_Unclamped(rows) ==
    LET n == Len(rows)
    IN  [min_players_range |-> IntOf(Sum(rows, "min_players") - n, n),
         max_players_range |-> IntOf(Sum(rows, "max_players") + 2 * n, n),
         min_time_range |-> IntOf(Sum(rows, "average_play_time"), 2 * n),
         max_time_range |-> IntOf(2 * Sum(rows, "average_play_time"), n),
         min_complexity |-> Sum(rows, "complexity_rating") - 10 * n,
         max_complexity |-> Sum(rows, "complexity_rating") + 10 * n,
         n |-> n]

SimilarityWindow(rows) ==
    LET n == Len(rows)
    IN  [min_players_range |-> Max(1, IntOf(Sum(rows, "min_players") - n, n)),
         max_players_range |->
             Min(10, IntOf(Sum(rows, "max_players") + 2 * n, n)),
         min_time_range |->
             Max(15, IntOf(Sum(rows, "average_play_time"), 2 * n)),
         max_time_range |->
             Min(300, IntOf(2 * Sum(rows, "average_play_time"), n)),
         \* the complexity bounds are kept as numerators over n, in tenths
         min_complexity |->
             Max(10 * n, Sum(rows, "complexity_rating") - 10 * n),
         max_complexity |->
             Min(50 * n, Sum(rows, "complexity_rating") + 10 * n),
         n |-> n]

\* faulty variant: the max_players bound is left out of the where clause
InWindow_NoMaxPlayers(row, w) ==
    /\ row.min_players >= w.min_players_range
    /\ row.average_play_time >= w.min_time_range
    /\ row.average_play_time <= w.max_time_range
    /\ row.complexity_rating * w.n >= w.min_complexity
    /\ row.complexity_rating * w.n <= w.max_complexity

InWindow(row, w) ==
    /\ row.min_players >= w.min_players_range
    /\ row.max_players <= w.max_players_range
    /\ row.average_play_time >= w.min_time_range
    /\ row.average_play_time <= w.max_time_range
    /\ row.complexity_rating * w.n >= w.min_complexity
    /\ row.complexity_rating * w.n <= w.max_complexity

\* faulty variant: the played games are not excluded
SimilarGamesQuery_NoExclusion(played_game_ids, w, needed) ==
    Limit(OrderByName({id \in StoredIds : InWindow(games[id], w)}), needed)

\* similar_games_id_query
SimilarGamesQuery(played_game_ids, w, needed) ==
    Limit(OrderByName({id \in StoredIds :
                          /\ id \notin Range(played_game_ids)
                          /\ InWindow(games[id], w)}),
          needed)

\* faulty variant: min_players and max_players bound the game's own
\* min_players
GetAll_Own(sk, lim, min_players, max_players, min_play_time, max_play_time) ==
    Slice(OrderByName({id \in StoredIds :
                          /\ games[id].min_players >= min_players
                          /\ games[id].min_players <= max_players
                          /\ games[id].average_play_time >= min_play_time
                          /\ games[id].average_play_time <= max_play_time}),
          sk, lim)

\* GameRepository.get_all(skip, limit, min_players=2, max_players=6,
\*                        min_play_time=30, max_play_time=120)
GetAll(sk, lim, min_players, max_players, min_play_time, max_play_time) ==
    Slice(OrderByName({id \in StoredIds :
                          /\ games[id].max_players >= min_players
                          /\ games[id].min_players <= max_players
                          /\ games[id].average_play_time >= min_play_time
                          /\ games[id].average_play_time <= max_play_time}),
          sk, lim)

\* faulty variant: the played games are not subtracted
SimilarGamesNeeded_Limit(lim, rows) == lim

\* similar_games_needed = max(0, limit - len(played_games_data))
\* faulty variant: one similar game is asked for even when P fills the page
SimilarGamesNeeded_AtLeastOne(lim, rows) == Max(1, lim - Len(rows))

SimilarGamesNeeded(lim, rows) == Max(0, lim - Len(rows))

\* faulty variant: the slice [skip:limit] in place of [skip:skip + limit]
Paginate_EndAtLimit(played_game_ids, similar_ids, sk, lim) ==
    SubSeq(played_game_ids \o similar_ids, sk + 1,
           Min(Len(played_game_ids \o similar_ids), lim))

\* all_curated_game_ids[skip:skip + limit]
Paginate(played_game_ids, similar_ids, sk, lim) ==
    Slice(played_game_ids \o similar_ids, sk, lim)

RequestIdle ==
    /\ pc = "idle"
    /\ skip = 0
    /\ limit = 0
    /\ played_games_data = <<>>
    /\ similar_games_needed = 0
    /\ window = {}
    /\ similar_game_ids = <<>>
    /\ paginated_game_ids = <<>>
    /\ fetched = 0
    /\ curated = <<>>
    /\ queries = {}
    /\ count_response = {}

\* lines 220-230: the played-games query
PlayedGamesQuery(sk, lim) ==
    /\ pc = "idle"
    /\ \E rows \in AnyOrder(PlayedRows) : played_games_data' = rows
    /\ skip' = sk
    /\ limit' = lim
    /\ pc' = "queried"
    /\ queries' = {"played"}
    /\ UNCHANGED <<catalogVars, similar_games_needed, window,
                   similar_game_ids, paginated_game_ids, fetched, curated,
                   count_response>>

\* faulty variant: the similarity query runs all the same
Fallback_WithSimilar ==
    /\ pc = "queried"
    /\ played_games_data = <<>>
    /\ curated' = GetAll(skip, limit, 2, 6, 30, 120)
    /\ similar_game_ids' = OrderByName(StoredIds)
    /\ pc' = "done"
    /\ queries' = queries \cup {"get_all", "similar"}
    /\ UNCHANGED <<catalogVars, skip, limit, played_games_data,
                   similar_games_needed, window, paginated_game_ids, fetched,
                   count_response>>

\* lines 232-243: no played games, the generic filter is the response
Fallback ==
    /\ pc = "queried"
    /\ played_games_data = <<>>
    /\ curated' = GetAll(skip, limit, 2, 6, 30, 120)
    /\ pc' = "done"
    /\ queries' = queries \cup {"get_all"}
    /\ UNCHANGED <<catalogVars, skip, limit, played_games_data,
                   similar_games_needed, window, similar_game_ids,
                   paginated_game_ids, fetched, count_response>>

StartFetch(ids) ==
    /\ paginated_game_ids' = ids
    /\ fetched' = 0
    /\ curated' = <<>>
    /\ pc' = IF ids = <<>> THEN "done" ELSE "fetch"

\* lines 245-286 with similar_games_needed > 0: the similarity query
SimilarQuery ==
    /\ pc = "queried"
    /\ played_games_data # <<>>
    /\ LET needed == SimilarGamesNeeded(limit, played_games_data)
           w == SimilarityWindow(played_games_data)
           ids == SimilarGamesQuery(Ids(played_games_data), w, needed)
       IN  /\ needed > 0
           /\ similar_games_needed' = needed
           /\ window' = {w}
           /\ similar_game_ids' = ids
           /\ StartFetch(Paginate(Ids(played_games_data), ids, skip, limit))
    /\ queries' = queries \cup {"similar"}
    /\ UNCHANGED <<catalogVars, skip, limit, played_games_data,
                   count_response>>

\* lines 245-286 with similar_games_needed = 0: no similarity query
NoSimilarQuery ==
    /\ pc = "queried"
    /\ played_games_data # <<>>
    /\ SimilarGamesNeeded(limit, played_games_data) = 0
    /\ similar_games_needed' = 0
    /\ similar_game_ids' = <<>>
    /\ StartFetch(Paginate(Ids(played_games_data), <<>>, skip, limit))
    /\ UNCHANGED <<catalogVars, skip, limit, played_games_data, window,
                   queries, count_response>>

\* faulty variant: a game that is gone is replaced by the next stored one
FetchGame_Substitute ==
    /\ pc = "fetch"
    /\ LET game_id == paginated_game_ids[fetched + 1]
       IN  curated' = IF game_id \in StoredIds
                      THEN Append(curated, game_id)
                      ELSE IF StoredIds = {} THEN curated
                      ELSE Append(curated, CHOOSE id \in StoredIds : TRUE)
    /\ fetched' = fetched + 1
    /\ pc' = IF fetched + 1 = Len(paginated_game_ids) THEN "done" ELSE "fetch"
    /\ queries' = queries \cup {"get_by_id"}
    /\ UNCHANGED <<catalogVars, skip, limit, played_games_data,
                   similar_games_needed, window, similar_game_ids,
                   paginated_game_ids, count_response>>

\* lines 291-294: one turn of the loop over paginated_game_ids;
\* GameRepository.get_by_id returns None for an id that is not stored
FetchGame ==
    /\ pc = "fetch"
    /\ LET game_id == paginated_game_ids[fetched + 1]
       IN  curated' = IF game_id \in StoredIds
                      THEN Append(curated, game_id)
                      ELSE curated
    /\ fetched' = fetched + 1
    /\ pc' = IF fetched + 1 = Len(paginated_game_ids) THEN "done" ELSE "fetch"
    /\ queries' = queries \cup {"get_by_id"}
    /\ UNCHANGED <<catalogVars, skip, limit, played_games_data,
                   similar_games_needed, window, similar_game_ids,
                   paginated_game_ids, count_response>>

\* the locals of a request that is over
ClearRequest ==
    /\ skip' = 0
    /\ limit' = 0
    /\ played_games_data' = <<>>
    /\ similar_games_needed' = 0
    /\ window' = {}
    /\ similar_game_ids' = <<>>
    /\ paginated_game_ids' = <<>>
    /\ fetched' = 0
    /\ curated' = <<>>
    /\ count_response' = {}

\* the query a running request issues next: none when the fetch loop
\* follows a played-games query that already covers limit
QueryDue ==
    \/ pc \in {"idle", "fetch"}
    \/ /\ pc = "queried"
       /\ \/ played_games_data = <<>>
          \/ SimilarGamesNeeded(limit, played_games_data) > 0

\* faulty variant: the exception is caught and an empty list returned
QueryFails_Swallowed ==
    /\ QueryDue
    /\ ClearRequest
    /\ pc' = "done"
    /\ queries' = queries \cup {"error"}
    /\ UNCHANGED catalogVars

\* session.execute raises inside get_curated_games or
\* get_curated_games_count: nothing catches it, the request ends with the
\* exception (get_db rolls back and raises again)
QueryFails ==
    /\ QueryDue
    /\ ClearRequest
    /\ pc' = "failed"
    /\ queries' = queries \cup {"error"}
    /\ UNCHANGED catalogVars

-----------------------------------------------------------------------------
(* get_curated_games_count                                                 *)

\* target_total = 150
target_total == 150

\* select(func.count(distinct(Game.id))) over the same join
PlayedCountQuery ==
    Cardinality({r.id : r \in PlayedRows})

\* faulty variant: the similar games are counted in the catalog
get_curated_games_count_Matching(played_count) ==
    [played_games |-> played_count,
     similar_games |-> Cardinality(StoredIds) - played_count,
     total_curated |-> Cardinality(StoredIds)]

get_curated_games_count(played_count) ==
    LET similar_count == Max(0, target_total - played_count)
    IN  [played_games |-> played_count,
         similar_games |-> similar_count,
         total_curated |-> played_count + similar_count]

CuratedCount ==
    /\ pc = "idle"
    /\ pc' = "counted"
    /\ count_response' = {get_curated_games_count(PlayedCountQuery)}
    /\ queries' = {"count"}
    /\ UNCHANGED <<catalogVars, skip, limit, played_games_data,
                   similar_games_needed, window, similar_game_ids,
                   paginated_game_ids, fetched, curated>>

\* line 296 (and 243): the response is sent, the request is over
Respond ==
    /\ pc \in {"done", "counted", "failed"}
    /\ pc' = "idle"
    /\ ClearRequest
    /\ queries' = {}
    /\ UNCHANGED catalogVars

PagesIdle == first_page = {}

RaceIdle == in_flight = <<>>

ImportIdle == game_sessions = {} /\ pending = {} /\ table_data = {}

StoreIdle ==
    /\ player_preferences = {}
    /\ reply = {}
    /\ titles = <<>>
    /\ check_constraints = TRUE
    /\ RaceIdle
    /\ ImportIdle

CompatIdle ==
    /\ game = CHOOSE g \in Games : TRUE
    /\ preferences = CHOOSE p \in Preferences : TRUE
    /\ response = {}

CuratedInit ==
    CatalogInit /\ RequestIdle /\ CompatIdle /\ PagesIdle /\ StoreIdle

CuratedNext ==
    \/ /\ pc = "idle"
       /\ \E id \in GameIds, a \in GameAttrs : CreateGame(id, a)
       /\ UNCHANGED <<requestVars, compatVars, first_page, storeVars,
                      raceVars, importVars>>
    \/ /\ pc = "idle"
       /\ \E u \in Usernames, id \in GameIds : ImportHistory(u, id)
       /\ UNCHANGED <<requestVars, compatVars, first_page, storeVars,
                      raceVars, importVars>>
    \/ /\ \E id \in GameIds : DeleteGame(id)
       /\ UNCHANGED <<requestVars, compatVars, first_page, storeVars,
                      raceVars, importVars>>
    \/ /\ \E sk \in 0..MaxSkip, lim \in 1..MaxLimit : PlayedGamesQuery(sk, lim)
       /\ UNCHANGED <<compatVars, first_page, storeVars, raceVars, importVars>>
    \/ Fallback /\ UNCHANGED <<compatVars, first_page, storeVars,
                               raceVars, importVars>>
    \/ SimilarQuery /\ UNCHANGED <<compatVars, first_page, storeVars,
                                   raceVars, importVars>>
    \/ NoSimilarQuery /\ UNCHANGED <<compatVars, first_page, storeVars,
                                     raceVars, importVars>>
    \/ FetchGame /\ UNCHANGED <<compatVars, first_page, storeVars,
                                raceVars, importVars>>
    \/ QueryFails /\ UNCHANGED <<compatVars, first_page, storeVars,
                                 raceVars, importVars>>
    \/ CuratedCount /\ UNCHANGED <<compatVars, first_page, storeVars,
                                   raceVars, importVars>>
    \/ Respond /\ UNCHANGED <<compatVars, first_page, storeVars,
                              raceVars, importVars>>

SpecCurated == CuratedInit /\ [][CuratedNext]_vars

-----------------------------------------------------------------------------
(* Two pages of the curated list: a client asks for skip = 0, limit = L    *)
(* and then for skip = L, limit = L, and the catalog does not change from  *)
(* the first request on.                                                   *)

LastPage == Get(first_page)

\* GET /games/curated?skip=0&limit=L
FirstPage ==
    /\ first_page = {}
    /\ \E lim \in 1..MaxLimit : PlayedGamesQuery(0, lim)
    /\ UNCHANGED first_page

\* the first response reaches the client, which keeps it
RespondFirstPage ==
    /\ first_page = {}
    /\ Respond
    /\ first_page' = {[limit |-> limit, games |-> curated]}

\* GET /games/curated?skip=L&limit=L
SecondPage ==
    /\ first_page # {}
    /\ PlayedGamesQuery(LastPage.limit, LastPage.limit)
    /\ UNCHANGED first_page

PagesInit ==
    CatalogInit /\ RequestIdle /\ CompatIdle /\ PagesIdle /\ StoreIdle

PagesNext ==
    \/ /\ pc = "idle" /\ first_page = {}
       /\ \E id \in GameIds, a \in GameAttrs : CreateGame(id, a)
       /\ UNCHANGED <<requestVars, compatVars, first_page, storeVars,
                      raceVars, importVars>>
    \/ /\ pc = "idle" /\ first_page = {}
       /\ \E u \in Usernames, id \in GameIds : ImportHistory(u, id)
       /\ UNCHANGED <<requestVars, compatVars, first_page, storeVars,
                      raceVars, importVars>>
    \/ FirstPage /\ UNCHANGED <<compatVars, storeVars, raceVars, importVars>>
    \/ Fallback /\ UNCHANGED <<compatVars, first_page, storeVars,
                               raceVars, importVars>>
    \/ SimilarQuery /\ UNCHANGED <<compatVars, first_page, storeVars,
                                   raceVars, importVars>>
    \/ NoSimilarQuery /\ UNCHANGED <<compatVars, first_page, storeVars,
                                     raceVars, importVars>>
    \/ FetchGame /\ UNCHANGED <<compatVars, first_page, storeVars,
                                raceVars, importVars>>
    \/ RespondFirstPage /\ UNCHANGED <<compatVars, storeVars,
                                       raceVars, importVars>>
    \/ SecondPage /\ UNCHANGED <<compatVars, storeVars, raceVars, importVars>>

SpecPages == PagesInit /\ [][PagesNext]_vars

-----------------------------------------------------------------------------
(* The compatibility request: a game and a preference record are loaded,   *)
(* then scored.                                                            *)

CompatInit ==
    /\ game \in Games
    /\ preferences \in Preferences
    /\ response = {}
    /\ CatalogInit
    /\ RequestIdle
    /\ PagesIdle
    /\ StoreIdle

CalculateCompatibility ==
    /\ response = {}
    /\ response' = {calculate_compatibility(game, preferences)}
    /\ UNCHANGED <<game, preferences>>
    /\ UNCHANGED catalogVars
    /\ UNCHANGED requestVars
    /\ UNCHANGED <<first_page, storeVars, raceVars, importVars>>

CompatNext == CalculateCompatibility

SpecCompat == CompatInit /\ [][CompatNext]_vars

-----------------------------------------------------------------------------
(* Claims about calculate_compatibility, checked under SpecCompat.         *)

Scored == response # {}
Result == Get(response)
Verdicts == {"compatible", "incompatible", "no_preference"}

\* the contribution of a verdict, in eighths: 1.0, 0.5, 0.0
Contribution(verdict) ==
    CASE verdict = "compatible" -> 8
      [] verdict = "no_preference" -> 4
      [] verdict = "incompatible" -> 0

\* C1: the score is the sum of the four verdicts' contributions (1, 0.5, 0)
\* divided by 4, hence one of the nine multiples of 0.125 in [0, 1].
C1_ScoreIsMeanOfContributions ==
    Scored =>
        /\ \A f \in DOMAIN Result.details : Result.details[f] \in Verdicts
        /\ DOMAIN Result.details =
               {"player_count", "play_time", "complexity", "categories"}
        /\ 4 * Result.compatibility_score =
               Contribution(Result.details.player_count)
               + Contribution(Result.details.play_time)
               + Contribution(Result.details.complexity)
               + Contribution(Result.details.categories)
        /\ Result.compatibility_score \in 0..8

C1_Witness ==
    /\ Scored
    /\ Result.details.player_count = "no_preference"
    /\ Result.details.play_time = "compatible"
    /\ Result.details.complexity = "incompatible"
    /\ Result.details.categories = "no_preference"
    /\ Result.compatibility_score = 4

\* C2: recommendation is "recommended" iff the score is at least 0.75
\* (6 eighths), and is "not_recommended" otherwise.
C2_RecommendedIffThreeQuarters ==
    Scored =>
        /\ Result.recommendation \in {"recommended", "not_recommended"}
        /\ Result.recommendation = "recommended"
               <=> Result.compatibility_score >= 6

C2_Witness ==
    /\ Scored
    /\ Result.compatibility_score = 6
    /\ Result.recommendation = "recommended"

\* C3: with preferred_player_count set the player_count verdict is
\* compatible iff min_players <= preferred_player_count <= max_players and
\* incompatible otherwise; unset, it is no_preference.
C3_PlayerCountVerdict ==
    Scored =>
        /\ preferences.preferred_player_count = {}
               => Result.details.player_count = "no_preference"
        /\ \A n \in preferences.preferred_player_count :
               Result.details.player_count =
                   IF game.min_players <= n /\ n <= game.max_players
                   THEN "compatible" ELSE "incompatible"

\* the preferred count is max_players of a game with min_players < max_players
C3_Witness ==
    /\ Scored
    /\ game.min_players < game.max_players
    /\ preferences.preferred_player_count = {game.max_players}
    /\ Result.details.player_count = "compatible"

\* C4: play_time and complexity are no_preference, contributing 0.5, when
\* at least one of their two bounds is unset, whatever the set bound is.
C4_SingleBoundIsNoPreference ==
    Scored =>
        /\ (preferences.minimum_play_time = {}
              \/ preferences.maximum_play_time = {})
            => /\ Result.details.play_time = "no_preference"
               /\ play_time_factor(game, preferences).score = 4
        /\ (preferences.preferred_complexity_min = {}
              \/ preferences.preferred_complexity_max = {})
            => /\ Result.details.complexity = "no_preference"
               /\ complexity_factor(game, preferences).score = 4

\* the only bound set excludes the game: minimum_play_time above its time,
\* preferred_complexity_max below its complexity
C4_Witness ==
    /\ Scored
    /\ preferences.maximum_play_time = {}
    /\ \E lo \in preferences.minimum_play_time : lo > game.average_play_time
    /\ preferences.preferred_complexity_min = {}
    /\ \E hi \in preferences.preferred_complexity_max :
           hi < game.complexity_rating
    /\ Result.details.play_time = "no_preference"
    /\ Result.details.complexity = "no_preference"

\* C5: with both bounds set, play_time and complexity are compatible iff
\* lower <= game value <= upper (inclusive), incompatible otherwise.
C5_BothBoundsInclusive ==
    Scored =>
        /\ \A lo \in preferences.minimum_play_time :
           \A hi \in preferences.maximum_play_time :
               Result.details.play_time =
                   IF lo <= game.average_play_time
                      /\ game.average_play_time <= hi
                   THEN "compatible" ELSE "incompatible"
        /\ \A lo \in preferences.preferred_complexity_min :
           \A hi \in preferences.preferred_complexity_max :
               Result.details.complexity =
                   IF lo <= game.complexity_rating
                      /\ game.complexity_rating <= hi
                   THEN "compatible" ELSE "incompatible"

\* the game's time equals the lower bound, its complexity the upper bound
C5_Witness ==
    /\ Scored
    /\ preferences.minimum_play_time = {game.average_play_time}
    /\ \E hi \in preferences.maximum_play_time : hi > game.average_play_time
    /\ preferences.preferred_complexity_max = {game.complexity_rating}
    /\ \E lo \in preferences.preferred_complexity_min :
           lo < game.complexity_rating
    /\ Result.details.play_time = "compatible"
    /\ Result.details.complexity = "compatible"

\* C6: with preferred categories, the categories verdict is compatible iff
\* the game shares at least one category id with them, incompatible
\* otherwise; with none preferred it is no_preference.
C6_CategoryOverlap ==
    Scored =>
        Result.details.categories =
            IF preferences.preferred_categories = {} THEN "no_preference"
            ELSE IF \E c \in game.categories :
                        c \in preferences.preferred_categories
                 THEN "compatible"
                 ELSE "incompatible"

\* one shared category, and a preferred category the game does not have
C6_Witness ==
    /\ Scored
    /\ game.categories \cap preferences.preferred_categories # {}
    /\ preferences.preferred_categories \ game.categories # {}
    /\ Result.details.categories = "compatible"

\* C7: with no preference set and no preferred category, the score is 0.5,
\* the recommendation not_recommended and every verdict no_preference.
NoPreferences ==
    /\ preferences.preferred_player_count = {}
    /\ preferences.minimum_play_time = {}
    /\ preferences.maximum_play_time = {}
    /\ preferences.preferred_complexity_min = {}
    /\ preferences.preferred_complexity_max = {}
    /\ preferences.preferred_categories = {}

C7_NoPreferencesIsHalf ==
    (Scored /\ NoPreferences) =>
        /\ Result.compatibility_score = 4
        /\ Result.recommendation = "not_recommended"
        /\ \A f \in DOMAIN Result.details :
               Result.details[f] = "no_preference"

C7_Witness ==
    /\ Scored
    /\ NoPreferences
    /\ game.categories # {}
    /\ Result.compatibility_score = 4

-----------------------------------------------------------------------------
(* Claims about get_curated_games, checked under SpecCurated.              *)

played_game_ids == Ids(played_games_data)
Selected == pc \in {"fetch", "done"} /\ played_games_data # <<>>
NoDuplicates(seq) ==
    \A i, j \in DOMAIN seq : seq[i] = seq[j] => i = j
IsSubSeq(sub, seq) ==
    \E pos \in [DOMAIN sub -> DOMAIN seq] :
        /\ \A i \in DOMAIN sub : seq[pos[i]] = sub[i]
        /\ \A i, j \in DOMAIN sub : i < j => pos[i] < pos[j]
RealPlayed ==
    {h.game_id : h \in {r \in history : r.username \in REAL_PLAYERS}}

\* C8: with played games, the ids chosen for the response are positions
\* [skip, skip + limit) of the played ids followed by the similar ids; the
\* played-games query returns every played game (it is not paginated);
\* and the response holds those ids in that order, all of them unless a
\* game was deleted before its lookup.
C8_SliceAfterConcatenation ==
    /\ [](Selected =>
            /\ \A i \in DOMAIN paginated_game_ids :
                   /\ i <= limit
                   /\ paginated_game_ids[i] =
                          (played_game_ids \o similar_game_ids)[skip + i]
            /\ Len(paginated_game_ids) =
                   Max(0, Min(limit, Len(played_game_ids)
                                        + Len(similar_game_ids) - skip)))
    /\ []((pc = "done" /\ played_games_data # <<>>) =>
            /\ IsSubSeq(curated, paginated_game_ids)
            /\ Range(paginated_game_ids) \cap StoredIds \subseteq Range(curated)
            /\ Range(paginated_game_ids) \subseteq StoredIds
                   => curated = paginated_game_ids)
    /\ [][(pc = "idle" /\ pc' = "queried") =>
            {row.id : row \in Range(played_games_data')} = RealPlayed]_vars

\* two played games and one similar game, skip = 1: the response is the
\* second played game followed by the similar game
C8_Witness ==
    /\ pc = "done"
    /\ skip = 1
    /\ Len(played_games_data) = 2
    /\ Len(similar_game_ids) = 1
    /\ curated = <<played_game_ids[2], similar_game_ids[1]>>

\* C9: the similarity query returns the first similar_games_needed games
\* in name order (all of them when fewer exist) among the stored games that
\* are not played and satisfy every bound of the window.
Matching(w, played_ids) ==
    {id \in StoredIds :
        /\ id \notin Range(played_ids)
        /\ games[id].min_players >= w.min_players_range
        /\ games[id].max_players <= w.max_players_range
        /\ w.min_time_range <= games[id].average_play_time
        /\ games[id].average_play_time <= w.max_time_range
        /\ w.min_complexity <= games[id].complexity_rating * w.n
        /\ games[id].complexity_rating * w.n <= w.max_complexity}

C9_SimilarAreFirstMatchesByName ==
    [][(pc = "queried" /\ pc' # "queried" /\ window' # {}) =>
        LET w == Get(window')
            found == similar_game_ids'
            matching == Matching(w, played_game_ids)
        IN  /\ similar_games_needed' = limit - Len(played_games_data)
            /\ NoDuplicates(found)
            /\ Range(found) \subseteq matching
            /\ Len(found) =
                   Min(similar_games_needed', Cardinality(matching))
            /\ \A i, j \in DOMAIN found :
                   i < j => games[found[i]].name <= games[found[j]].name
            /\ \A id \in matching \ Range(found) :
               \A i \in DOMAIN found :
                   games[found[i]].name <= games[id].name]_vars

\* one similar game was asked for; a second matching game with a later
\* name was cut off and a third stored game lies outside the window
C9_Witness ==
    /\ pc \in {"fetch", "done"}
    /\ window # {}
    /\ similar_games_needed = 1
    /\ Len(similar_game_ids) = 1
    /\ \E id \in Matching(Get(window), played_game_ids) :
           /\ id # similar_game_ids[1]
           /\ games[id].name > games[similar_game_ids[1]].name
    /\ StoredIds = GameIds

\* C10: no game with a history row of a real player is among the similar
\* ids, and the response names no game twice.
C10_PlayedNeverSimilar ==
    /\ Range(similar_game_ids) \cap Range(played_game_ids) = {}
    /\ Range(similar_game_ids) \cap RealPlayed = {}
    /\ NoDuplicates(played_game_ids \o similar_game_ids)
    /\ NoDuplicates(paginated_game_ids)
    /\ NoDuplicates(curated)

\* the played game lies inside its own window and is returned once, next
\* to a similar game that only a player outside REAL_PLAYERS has played
C10_Witness ==
    /\ pc = "done"
    /\ window # {}
    /\ \E i \in DOMAIN played_games_data :
           /\ played_game_ids[i] \in StoredIds
           /\ InWindow(games[played_game_ids[i]], Get(window))
           /\ played_game_ids[i] \in Range(curated)
    /\ \E i \in DOMAIN similar_game_ids :
           /\ similar_game_ids[i] \in Range(curated)
           /\ \E h \in history : h.game_id = similar_game_ids[i]

-----------------------------------------------------------------------------
(* Claims about the played set, the similarity window and the fallback.    *)

Window == Get(window)
PlayedSum(f) == Sum(played_games_data, f)
PlayedCount == Len(played_games_data)
\* q is a / b without its fraction: q <= a / b < q + 1
IsTruncated(q, a, b) == q * b <= a /\ a < (q + 1) * b
\* v = max(lo, int(a / b)) and v = min(hi, int(a / b))
IsMaxWithTruncated(v, lo, a, b) ==
    IF a < (lo + 1) * b THEN v = lo ELSE IsTruncated(v, a, b)
IsMinWithTruncated(v, hi, a, b) ==
    IF a >= hi * b THEN v = hi ELSE IsTruncated(v, a, b)

\* C11: the played-games rows hold each played game once and are in
\* ascending name order.
C11_PlayedOrderedByName ==
    /\ NoDuplicates(played_game_ids)
    /\ \A i, j \in DOMAIN played_games_data :
           i < j => played_games_data[i].name < played_games_data[j].name

\* C12: similar_games_needed is max(0, limit - |P|); with limit <= |P| no
\* similarity query is issued and only played games are returned.
C12_SimilarGamesNeeded ==
    Selected =>
        /\ similar_games_needed =
               IF limit > PlayedCount THEN limit - PlayedCount ELSE 0
        /\ limit > PlayedCount => "similar" \in queries
        /\ limit <= PlayedCount =>
               /\ "similar" \notin queries
               /\ window = {}
               /\ similar_game_ids = <<>>
               /\ Range(paginated_game_ids) \subseteq Range(played_game_ids)
               /\ Range(curated) \subseteq Range(played_game_ids)

\* limit = |P| while an unplayed game lies inside the window of P
C12_Witness ==
    /\ pc = "done"
    /\ played_games_data # <<>>
    /\ limit = PlayedCount
    /\ curated # <<>>
    /\ \E id \in StoredIds \ Range(played_game_ids) :
           InWindow(games[id], SimilarityWindow(played_games_data))

\* C13 as stated: the integer bounds round the means to the nearest whole
\* number.
C13_WindowRounded ==
    window # {} =>
        /\ Window.min_players_range =
               Max(1, Round(PlayedSum("min_players"), PlayedCount) - 1)
        /\ Window.max_players_range =
               Min(10, Round(PlayedSum("max_players"), PlayedCount) + 2)
        /\ Window.min_time_range =
               Max(15, Round(PlayedSum("average_play_time"), 2 * PlayedCount))
        /\ Window.max_time_range =
               Min(300, Round(2 * PlayedSum("average_play_time"), PlayedCount))

\* C13 as amended: the integer bounds truncate: int(mean_min_players - 1),
\* int(mean_max_players + 2), int(mean_play_time * 0.5) and
\* int(mean_play_time * 2), then the same clamps.
C13_WindowTruncated ==
    window # {} =>
        /\ IsMaxWithTruncated(Window.min_players_range, 1,
                              PlayedSum("min_players") - PlayedCount,
                              PlayedCount)
        /\ IsMinWithTruncated(Window.max_players_range, 10,
                              PlayedSum("max_players") + 2 * PlayedCount,
                              PlayedCount)
        /\ IsMaxWithTruncated(Window.min_time_range, 15,
                              PlayedSum("average_play_time"), 2 * PlayedCount)
        /\ IsMinWithTruncated(Window.max_time_range, 300,
                              2 * PlayedSum("average_play_time"), PlayedCount)

\* a mean of max_players whose fraction is one half: rounding would give
\* a larger max_players_range
C13_Witness ==
    /\ window # {}
    /\ 2 * (PlayedSum("max_players") % PlayedCount) >= PlayedCount
    /\ Window.max_players_range <
           Min(10, Round(PlayedSum("max_players"), PlayedCount) + 2)

\* C14: the window lies inside the valid domain, and the complexity window
\* is [max(1.0, mean - 1.0), min(5.0, mean + 1.0)] with 1.0 <= lo <= hi <= 5.0.
C14_WindowInsideDomain ==
    window # {} =>
        /\ Window.min_players_range >= 1
        /\ Window.max_players_range <= 10
        /\ Window.min_time_range >= 15
        /\ Window.max_time_range <= 300
        /\ Window.n = PlayedCount
        /\ Window.min_complexity =
               Max(10 * PlayedCount,
                   PlayedSum("complexity_rating") - 10 * PlayedCount)
        /\ Window.max_complexity =
               Min(50 * PlayedCount,
                   PlayedSum("complexity_rating") + 10 * PlayedCount)
        /\ 10 * PlayedCount <= Window.min_complexity
        /\ Window.min_complexity <= Window.max_complexity
        /\ Window.max_complexity <= 50 * PlayedCount

\* the clamps at 300 minutes and at complexity 1.0 are both in force
C14_Witness ==
    /\ window # {}
    /\ 2 * PlayedSum("average_play_time") > 300 * PlayedCount
    /\ Window.max_time_range = 300
    /\ PlayedSum("complexity_rating") < 20 * PlayedCount
    /\ Window.min_complexity = 10 * PlayedCount

\* C15: with no played game the response is the result of the generic
\* filter; no mean, no window and no similarity query is computed.
C15_EmptyPlayedFallsBack ==
    /\ []((pc \in {"queried", "done"} /\ played_games_data = <<>>) =>
            /\ window = {}
            /\ similar_games_needed = 0
            /\ similar_game_ids = <<>>
            /\ paginated_game_ids = <<>>
            /\ queries \subseteq {"played", "get_all"})
    /\ [][(pc = "queried" /\ played_games_data = <<>> /\ pc' = "done") =>
            /\ curated' = GetAll(skip, limit, 2, 6, 30, 120)
            /\ queries' = {"played", "get_all"}]_vars

\* the fallback returned a game and left another stored game out
C15_Witness ==
    /\ pc = "done"
    /\ "get_all" \in queries
    /\ curated # <<>>
    /\ StoredIds \ Range(curated) # {}

FallbackStep == pc = "queried" /\ played_games_data = <<>> /\ pc' = "done"
NamesBefore(ids, id) ==
    Cardinality({other \in ids : games[other].name < games[id].name})
\* seq holds positions [skip, skip + limit) of ids in name order
IsPageByName(seq, ids) ==
    /\ Range(seq) \subseteq ids
    /\ Len(seq) = Max(0, Min(limit, Cardinality(ids) - skip))
    /\ \A i \in DOMAIN seq : NamesBefore(ids, seq[i]) = skip + i - 1

\* C16 as stated: the fallback returns the games with min_players in
\* [2, 6] and average_play_time in [30, 120], by name, sliced.
C16_FallbackMinPlayersWithin ==
    [][FallbackStep =>
        IsPageByName(curated',
            {id \in StoredIds :
                /\ games[id].min_players \in 2..6
                /\ games[id].average_play_time \in 30..120})]_vars

\* C16 as amended: the fallback returns the games with max_players >= 2,
\* min_players <= 6 and average_play_time in [30, 120], by name, sliced.
C16_FallbackPlayerRangeOverlaps ==
    [][FallbackStep =>
        IsPageByName(curated',
            {id \in StoredIds :
                /\ games[id].max_players >= 2
                /\ games[id].min_players <= 6
                /\ games[id].average_play_time \in 30..120})]_vars

\* the fallback returned a game whose min_players is 1 and left out a game
\* that is too short
C16_Witness ==
    /\ pc = "done"
    /\ "get_all" \in queries
    /\ \E i \in DOMAIN curated :
           /\ curated[i] \in StoredIds
           /\ games[curated[i]].min_players = 1
    /\ \E id \in StoredIds : games[id].average_play_time < 30

-----------------------------------------------------------------------------
(* Claims about the fetch loop, the count and failing queries.             *)

\* C18: a game deleted before its lookup is dropped: the lookup does not
\* fail, nothing takes the game's place and the games found keep their
\* order.
C18_MissingGameDropped ==
    /\ []((pc \in {"fetch", "done"} /\ "get_all" \notin queries) =>
            /\ Len(curated) <= fetched
            /\ IsSubSeq(curated, SubSeq(paginated_game_ids, 1, fetched)))
    /\ [][(pc = "fetch" /\ fetched' = fetched + 1) =>
            /\ pc' \in {"fetch", "done"}
            /\ curated' =
                   IF paginated_game_ids[fetched + 1] \in StoredIds
                   THEN Append(curated, paginated_game_ids[fetched + 1])
                   ELSE curated]_vars

\* the first selected game was deleted before its lookup and the second
\* one is returned
C18_Witness ==
    /\ pc = "done"
    /\ Len(paginated_game_ids) >= 2
    /\ paginated_game_ids[1] \notin StoredIds
    /\ curated = Tail(paginated_game_ids)

\* C19: the count is played_games = number of distinct played games,
\* similar_games = max(0, 150 - played_games) and their sum, whatever the
\* number of unplayed games.
C19_CountFromPlayedAlone ==
    [][(pc = "idle" /\ pc' = "counted") =>
        /\ count_response' # {}
        /\ LET count == Get(count_response')
               played == Cardinality(RealPlayed)
           IN  /\ count.played_games = played
               /\ count.similar_games =
                      IF played < 150 THEN 150 - played ELSE 0
               /\ count.total_curated = played + count.similar_games]_vars

\* one played game and two unplayed ones: 1 + 149
C19_Witness ==
    /\ pc = "counted"
    /\ count_response # {}
    /\ Get(count_response).played_games = 1
    /\ Get(count_response).similar_games = 149
    /\ Cardinality(StoredIds \ RealPlayed) = 2

\* C20: a failing catalog query ends the request with the failure: no
\* game list and no count is returned, and no further query is issued.
C20_FailureReachesCaller ==
    /\ []("error" \in queries =>
            /\ pc = "failed"
            /\ curated = <<>>
            /\ count_response = {})
    /\ [][pc = "failed" =>
            /\ pc' \in {"failed", "idle"}
            /\ queries' \subseteq queries]_vars

\* the failure came in the fetch loop, after a game had been found
C20_Witness ==
    /\ pc = "failed"
    /\ {"played", "similar", "get_by_id"} \subseteq queries

-----------------------------------------------------------------------------
(* Claim about two consecutive pages.                                      *)

\* C17: with an unchanged catalog the pages (0, L) and (L, L) are disjoint
\* and are consecutive slices of one combined sequence.
C17_PagesAreDisjointSlices ==
    (first_page # {} /\ pc = "done") =>
        /\ Range(LastPage.games) \cap Range(curated) = {}
        /\ \E combined \in AnyOrder(Range(LastPage.games) \cup Range(curated)) :
               /\ LastPage.games = Slice(combined, 0, limit)
               /\ curated = Slice(combined, limit, limit)

-----------------------------------------------------------------------------
(* Claim about the length of the combined list.                            *)

Combined == played_game_ids \o similar_game_ids

\* C28: with played games, the combined list has at most max(|P|, limit)
\* ids, the response has at most limit games and none when skip >=
\* max(|P|, limit), and no similar game stands at a combined position
\* >= limit.
C28_CombinedAtMostMaxOfPlayedAndLimit ==
    Selected =>
        /\ Len(Combined) <= Max(PlayedCount, limit)
        /\ Len(paginated_game_ids) <= limit
        /\ Len(curated) <= limit
        /\ skip >= Max(PlayedCount, limit) =>
               paginated_game_ids = <<>> /\ curated = <<>>
        /\ \A i \in DOMAIN similar_game_ids : PlayedCount + i - 1 < limit

\* more unplayed games match the window than the request took, and the
\* page that starts after the played game holds the one similar game
C28_Witness ==
    /\ pc = "done"
    /\ played_games_data # <<>>
    /\ window # {}
    /\ Len(similar_game_ids) = 1
    /\ Cardinality(Matching(Window, played_game_ids)) > 1
    /\ skip = PlayedCount
    /\ curated = similar_game_ids

-----------------------------------------------------------------------------
(* The read-only core behind the API: GET /games/{game_id}/compatibility,  *)
(* GET /games/curated and GET /games/curated/count over a stored catalog   *)
(* and stored preferences.  Every request runs alone here.                 *)

PlayerIds == {"p1", "p2"}

\* PlayerPreferencesCreate(player_id=..., preferred_category_ids=[])
DefaultPreferences ==
    [preferred_player_count |-> {}, minimum_play_time |-> {},
     maximum_play_time |-> {}, preferred_complexity_min |-> {},
     preferred_complexity_max |-> {}, preferred_categories |-> {}]

\* a row of player_preferences: the key columns and the preference values
PreferencesRow(id, player_id, values) ==
    [id |-> id, player_id |-> player_id, values |-> values]

\* select(PlayerPreferences).where(player_id == ...): the matching rows
get_by_player_id(player_id) ==
    {row \in player_preferences : row.player_id = player_id}

\* selectinload(Game.categories)
CategoriesOf(id) ==
    {c.category_id : c \in {x \in game_categories : x.game_id = id}}

\* GameRepository.get_by_id: the Game with its categories loaded
get_by_id(id) ==
    [min_players |-> games[id].min_players,
     max_players |-> games[id].max_players,
     average_play_time |-> games[id].average_play_time,
     complexity_rating |-> games[id].complexity_rating,
     categories |-> CategoriesOf(id)]

Reply(request, status, detail) ==
    [request |-> request, status |-> status, detail |-> detail]

CompatibilityRequest(game_id, player_id) ==
    [op |-> "get_game_compatibility", game_id |-> game_id,
     player_id |-> player_id]

\* faulty variant: a missing preferences record is created with the defaults
\* and scored, as get_player_preferences does
GetGameCompatibility_Defaults(game_id, player_id) ==
    LET request == CompatibilityRequest(game_id, player_id)
        found == get_by_player_id(player_id)
        row == IF found = {}
               THEN PreferencesRow(Cardinality(player_preferences) + 1,
                                   player_id, DefaultPreferences)
               ELSE CHOOSE r \in found : TRUE
    IN  /\ pc = "idle"
        /\ game_id \in StoredIds
        /\ game' = get_by_id(game_id)
        /\ preferences' = row.values
        /\ response' = {calculate_compatibility(game', preferences')}
        /\ reply' = {Reply(request, 200, "")}
        /\ player_preferences' = player_preferences \cup {row}
        /\ UNCHANGED <<catalogVars, requestVars, first_page, titles,
                       check_constraints, raceVars, importVars>>

\* faulty variant: the overlap is computed in place on the preferred
\* categories, and the session commit stores the result
GetGameCompatibility_InPlace(game_id, player_id) ==
    LET request == CompatibilityRequest(game_id, player_id)
        found == get_by_player_id(player_id)
        row == CHOOSE r \in found : TRUE
        kept == row.values.preferred_categories \cap CategoriesOf(game_id)
    IN  /\ pc = "idle"
        /\ game_id \in StoredIds
        /\ found # {}
        /\ game' = get_by_id(game_id)
        /\ preferences' = row.values
        /\ response' = {calculate_compatibility(game', preferences')}
        /\ reply' = {Reply(request, 200, "")}
        /\ player_preferences' =
               (player_preferences \ {row}) \cup
                   {[row EXCEPT !.values.preferred_categories = kept]}
        /\ UNCHANGED <<catalogVars, requestVars, first_page, titles,
                       check_constraints, raceVars, importVars>>

\* games.py lines 424-450
GetGameCompatibility(game_id, player_id) ==
    LET request == CompatibilityRequest(game_id, player_id)
        found == get_by_player_id(player_id)
    IN  /\ pc = "idle"
        /\ IF game_id \notin StoredIds
           THEN /\ reply' = {Reply(request, 404, "Game not found")}
                /\ response' = {}
                /\ UNCHANGED <<game, preferences>>
           ELSE IF found = {}
           THEN /\ reply' =
                       {Reply(request, 404, "Player preferences not found")}
                /\ response' = {}
                /\ game' = get_by_id(game_id)
                /\ UNCHANGED preferences
           ELSE /\ game' = get_by_id(game_id)
                /\ preferences' = (CHOOSE r \in found : TRUE).values
                /\ response' = {calculate_compatibility(game', preferences')}
                /\ reply' = {Reply(request, 200, "")}
        /\ UNCHANGED <<catalogVars, requestVars, first_page,
                       player_preferences, titles, check_constraints,
                       raceVars, importVars>>

\* the stored catalogs and preference records the core is run against
CoreAttrs ==
    [g1 |-> BaseAttrs,
     g2 |-> [BaseAttrs EXCEPT !.min_players = 1],
     g3 |-> [BaseAttrs EXCEPT !.average_play_time = 160]]
CorePreferences ==
    {DefaultPreferences,
     [DefaultPreferences EXCEPT !.preferred_player_count = {4},
                                !.minimum_play_time = {30},
                                !.maximum_play_time = {90},
                                !.preferred_categories = {1}]}

CoreInit ==
    /\ \E S \in SUBSET GameIds :
          /\ games = [id \in S |-> GameRow(id, CoreAttrs[id])]
          /\ history \in
                 {h \in SUBSET [username : Usernames, game_id : S] :
                     Cardinality(h) <= MaxHistory}
          /\ game_categories \in
                 SUBSET [game_id : S \cap {"g1"}, category_id : {1}]
    /\ player_preferences \in
           {{}} \cup {{PreferencesRow(1, "p1", v)} : v \in CorePreferences}
    /\ reply = {}
    /\ titles = <<>>
    /\ check_constraints = TRUE
    /\ RaceIdle
    /\ ImportIdle
    /\ RequestIdle
    /\ CompatIdle
    /\ PagesIdle

CoreNext ==
    \/ \E game_id \in GameIds, player_id \in PlayerIds :
           GetGameCompatibility(game_id, player_id)
    \/ /\ \E sk \in 0..MaxSkip, lim \in 1..MaxLimit : PlayedGamesQuery(sk, lim)
       /\ UNCHANGED <<compatVars, first_page, storeVars, raceVars, importVars>>
    \/ Fallback /\ UNCHANGED <<compatVars, first_page, storeVars,
                               raceVars, importVars>>
    \/ SimilarQuery /\ UNCHANGED <<compatVars, first_page, storeVars,
                                   raceVars, importVars>>
    \/ NoSimilarQuery /\ UNCHANGED <<compatVars, first_page, storeVars,
                                     raceVars, importVars>>
    \/ FetchGame /\ UNCHANGED <<compatVars, first_page, storeVars,
                                raceVars, importVars>>
    \/ CuratedCount /\ UNCHANGED <<compatVars, first_page, storeVars,
                                   raceVars, importVars>>
    \/ Respond /\ UNCHANGED <<compatVars, first_page, storeVars,
                              raceVars, importVars>>

SpecCore == CoreInit /\ [][CoreNext]_vars

-----------------------------------------------------------------------------
(* Claims about the read-only core, checked under SpecCore.                *)

LastReply == Get(reply)
StoredPreferencesOf(player_id) ==
    {row.values : row \in get_by_player_id(player_id)}

\* C21: no operation of the core writes: the compatibility request, the
\* curated selection and the curated count leave every stored game,
\* history row, category association and preferences record as it was, and
\* the game and preferences that were scored are still the stored ones.
C21_CoreWritesNothing ==
    /\ [][/\ games' = games
          /\ history' = history
          /\ game_categories' = game_categories
          /\ player_preferences' = player_preferences]_vars
    /\ [](response # {} =>
            /\ game = get_by_id(LastReply.request.game_id)
            /\ {preferences} = StoredPreferencesOf(LastReply.request.player_id))

\* a game with a category was scored against preferences that name the
\* category, and a curated selection and a count ran
C21_Witness ==
    /\ response # {}
    /\ Result.details.categories = "compatible"
    /\ game.categories # {}
    /\ preferences.preferred_categories # {}
    /\ pc \in {"done", "counted"}
    /\ history # {}

\* C22: a compatibility request for a game that does not exist is answered
\* 404 "Game not found"; for a stored game and a player without a
\* preferences record, 404 "Player preferences not found"; in both cases
\* nothing is scored and no preferences record is created.
C22_CompatibilityNotFound ==
    /\ [](reply # {} =>
            LET request == LastReply.request
                no_game == request.game_id \notin StoredIds
                no_preferences == get_by_player_id(request.player_id) = {}
            IN  /\ no_game =>
                       /\ LastReply.status = 404
                       /\ LastReply.detail = "Game not found"
                       /\ response = {}
                /\ (~no_game /\ no_preferences) =>
                       /\ LastReply.status = 404
                       /\ LastReply.detail = "Player preferences not found"
                       /\ response = {}
                /\ (~no_game /\ ~no_preferences) =>
                       /\ LastReply.status = 200
                       /\ response # {})
    /\ [][reply' # reply => player_preferences' = player_preferences]_vars

\* the game exists, the other player has a preferences record, and the
\* request for this player was answered 404
C22_Witness ==
    /\ reply # {}
    /\ LastReply.request.game_id \in StoredIds
    /\ LastReply.request.player_id = "p2"
    /\ LastReply.detail = "Player preferences not found"
    /\ get_by_player_id("p1") # {}
    /\ response = {}

-----------------------------------------------------------------------------
(* POST /games and the names of the stored games.  A name is a sequence of *)
(* characters; the other columns of a game play no part in the duplicate   *)
(* check, so this part of the model keeps the name column alone.           *)

MaxTitles == 3
NameChars == {"a", "b", "A"}
\* GameBase.name: min_length=2; the longer names are in lower case
Names == [1..2 -> NameChars] \cup [1..3 -> {"a", "b"}]

\* str.lower() and func.lower()
LowerChar(c) == IF c = "A" THEN "a" ELSE c
Lower(name) == [i \in DOMAIN name |-> LowerChar(name[i])]

\* the order of ORDER BY on characters (code points) and on names
CharRank == [A |-> 1, a |-> 2, b |-> 3]
RECURSIVE NameLess(_, _)
NameLess(x, y) ==
    IF y = <<>> THEN FALSE
    ELSE IF x = <<>> THEN TRUE
    ELSE IF Head(x) # Head(y) THEN CharRank[Head(x)] < CharRank[Head(y)]
    ELSE NameLess(Tail(x), Tail(y))

\* text LIKE '%term%'
Like(text, term) ==
    \E i \in 0..(Len(text) - Len(term)) :
        SubSeq(text, i + 1, i + Len(term)) = term

\* the rows in ORDER BY name
RECURSIVE OrderByTitle(_)
OrderByTitle(rows) ==
    IF rows = {} THEN <<>>
    ELSE LET first == CHOOSE r \in rows :
                         \A other \in rows :
                             ~NameLess(titles[other], titles[r])
         IN  <<titles[first]>> \o OrderByTitle(rows \ {first})

\* GameRepository.search_by_name
search_by_name(name, lim) ==
    Limit(OrderByTitle({r \in DOMAIN titles :
                           Like(Lower(titles[r]), Lower(name))}), lim)

\* games.py lines 30-46
create_game(name) ==
    LET request == [op |-> "create_game", name |-> name]
        existing_games == search_by_name(name, 1)
    IN  IF /\ existing_games # <<>>
           /\ Lower(existing_games[1]) = Lower(name)
        THEN /\ reply' = {Reply(request, 400,
                                "Game with this name already exists")}
             /\ UNCHANGED titles
        ELSE /\ Len(titles) < MaxTitles
             /\ titles' = Append(titles, name)
             /\ reply' = {Reply(request, 201, "")}

NamesInit ==
    /\ CatalogInit
    /\ RequestIdle
    /\ CompatIdle
    /\ PagesIdle
    /\ StoreIdle

NamesNext ==
    /\ \E name \in Names : create_game(name)
    /\ UNCHANGED <<compatVars, catalogVars, requestVars, first_page,
                   player_preferences, check_constraints,
                   raceVars, importVars>>

SpecNames == NamesInit /\ [][NamesNext]_vars

-----------------------------------------------------------------------------
(* Claim about duplicate names, checked under SpecNames.                   *)

\* C23: creating a game whose name equals, ignoring case, the name of a
\* stored game is answered 400 and leaves the stored games unchanged.
C23_DuplicateNameRejected ==
    [][(\E r \in DOMAIN titles :
            Lower(titles[r]) = Lower(Get(reply').request.name)) =>
        /\ Get(reply').status = 400
        /\ titles' = titles]_vars

-----------------------------------------------------------------------------
(* The writing endpoints: POST /games, PUT /games/{game_id},               *)
(* GET and PUT /players/{player_id}/preferences, one request at a time.    *)
(* The initial migration gives games and player_preferences CHECK          *)
(* constraints on their ranges; the ORM models do not declare them, so a   *)
(* database made by Base.metadata.create_all has none.  check_constraints  *)
(* says which database the requests run against.                           *)

\* an update request body: the fields that are set, with their values
Present(data, field) == field \in DOMAIN data
Only(field, values) == {[f \in {field} |-> v] : v \in values}
Merge(a, b) ==
    [f \in DOMAIN a \cup DOMAIN b |-> IF f \in DOMAIN b THEN b[f] ELSE a[f]]

\* the game the requests are about, and an id that is never stored
StoreGameId == "g1"
MissingGameId == "g2"
GameValues ==
    [min_players |-> {1, 3}, max_players |-> {2, 4},
     average_play_time |-> {60, 90}, complexity_rating |-> {15}]
GameScalars ==
    {"min_players", "max_players", "average_play_time", "complexity_rating"}
CategoryLists == {{}, {1}}

\* GameCreate bodies: every combination of the values
GameCreates ==
    [min_players : GameValues.min_players,
     max_players : GameValues.max_players,
     average_play_time : GameValues.average_play_time,
     complexity_rating : GameValues.complexity_rating,
     category_ids : CategoryLists]

\* GameUpdate bodies: one scalar, both player counts, or the categories
GameUpdates ==
    UNION {Only(f, GameValues[f]) : f \in GameScalars}
    \cup {Merge(a, b) : a \in Only("min_players", GameValues.min_players),
                        b \in Only("max_players", GameValues.max_players)}
    \cup Only("category_ids", CategoryLists)
    \cup {Merge(a, b) : a \in Only("average_play_time", {90}),
                        b \in Only("category_ids", {{}})}

\* GameBase.max_players_must_be_greater_than_min
GameCreateValid(data) == data.max_players >= data.min_players

\* CheckConstraint("max_players >= min_players")
check_valid_player_range(row) == row.max_players >= row.min_players

ScalarsOf(data) == {f \in DOMAIN data : f \in GameScalars}
CategoryRows(id, category_ids) ==
    [game_id : {id}, category_id : category_ids \cap CategoryIds]

\* POST /games with valid ranges (games.py 30-46, GameRepository.create)
PostGame(data) ==
    LET request == [op |-> "create_game", data |-> data]
    IN  /\ StoreGameId \notin StoredIds
        /\ IF ~GameCreateValid(data)
           THEN /\ reply' = {Reply(request, 422, "validation")}
                /\ UNCHANGED catalogVars
           ELSE /\ games' = [x \in StoredIds \cup {StoreGameId} |->
                               IF x = StoreGameId
                               THEN GameRow(StoreGameId, data)
                               ELSE games[x]]
                /\ game_categories' =
                       game_categories \cup
                           CategoryRows(StoreGameId, data.category_ids)
                /\ UNCHANGED history
                /\ reply' = {Reply(request, 201, "")}


\* GameRepository.update: setattr for every field that is set; the categories
\* are replaced when category_ids is not None
UpdatedGame(row, data) ==
    [f \in DOMAIN row |-> IF f \in ScalarsOf(data) THEN data[f] ELSE row[f]]
UpdatedGameCategories(id, data) ==
    IF Present(data, "category_ids")
    THEN {c \in game_categories : c.game_id # id}
             \cup CategoryRows(id, data.category_ids)
    ELSE game_categories

\* PUT /games/{game_id} (games.py 354-378, GameRepository.update); the
\* commit fails on a CHECK constraint the new row breaks
update_game(game_id, data) ==
    LET request == [op |-> "update_game", game_id |-> game_id, data |-> data]
    IN  IF game_id \notin StoredIds
        THEN /\ reply' = {Reply(request, 404, "Game not found")}
             /\ UNCHANGED catalogVars
        ELSE LET row == UpdatedGame(games[game_id], data)
             IN  IF check_constraints /\ ~check_valid_player_range(row)
                 THEN /\ reply' = {Reply(request, 500, "IntegrityError")}
                      /\ UNCHANGED catalogVars
                 ELSE /\ games' = [games EXCEPT ![game_id] = row]
                      /\ game_categories' =
                             UpdatedGameCategories(game_id, data)
                      /\ UNCHANGED history
                      /\ reply' = {Reply(request, 200, "")}


\* table players: the one stored player
StoredPlayers == {"p1"}

PreferenceValues ==
    [minimum_play_time |-> {30, 60}, maximum_play_time |-> {45, 90},
     preferred_player_count |-> {4}, preferred_complexity_min |-> {20},
     preferred_complexity_max |-> {15, 30}]
PreferenceScalars == DOMAIN PreferenceValues

\* PlayerPreferencesUpdate bodies: one scalar (a value or null), both bounds
\* of a range, or the categories
PreferenceUpdates ==
    UNION {Only(f, Optional(PreferenceValues[f])) : f \in PreferenceScalars}
    \cup {Merge(a, b) :
            a \in Only("minimum_play_time",
                       Optional(PreferenceValues.minimum_play_time)),
            b \in Only("maximum_play_time",
                       Optional(PreferenceValues.maximum_play_time))}
    \cup {Merge(a, b) :
            a \in Only("preferred_complexity_min", {{20}}),
            b \in Only("preferred_complexity_max", {{15}, {30}})}
    \cup Only("preferred_category_ids", CategoryLists)
    \cup {Merge(a, b) : a \in Only("preferred_player_count", {{4}}),
                        b \in Only("preferred_category_ids", {{}})}

\* the field validators of PlayerPreferencesBase: the upper bound is
\* compared with the lower bound of the same body
BoundsInOrder(data, lower, upper) ==
    (/\ Present(data, upper) /\ IsSet(data[upper])
     /\ Present(data, lower) /\ IsSet(data[lower]))
        => Get(data[upper]) >= Get(data[lower])
PreferencesValid(data) ==
    /\ BoundsInOrder(data, "minimum_play_time", "maximum_play_time")
    /\ BoundsInOrder(data, "preferred_complexity_min",
                     "preferred_complexity_max")

\* check_valid_play_time_range and check_valid_complexity_range
RangeInOrder(values, lower, upper) ==
    \/ values[upper] = {}
    \/ values[lower] = {}
    \/ Get(values[upper]) >= Get(values[lower])
check_valid_ranges(values) ==
    /\ RangeInOrder(values, "minimum_play_time", "maximum_play_time")
    /\ RangeInOrder(values, "preferred_complexity_min",
                    "preferred_complexity_max")

\* faulty variant: a scalar that is not set is stored as null
UpdatedPreferences_Nulled(values, data) ==
    [f \in DOMAIN values |->
        IF f = "preferred_categories"
        THEN IF Present(data, "preferred_category_ids")
             THEN data.preferred_category_ids \cap CategoryIds
             ELSE values[f]
        ELSE IF Present(data, f) THEN data[f] ELSE {}]

\* PlayerPreferencesRepository.update (and create, over the defaults)
UpdatedPreferences(values, data) ==
    [f \in DOMAIN values |->
        IF f = "preferred_categories"
        THEN IF Present(data, "preferred_category_ids")
             THEN data.preferred_category_ids \cap CategoryIds
             ELSE values[f]
        ELSE IF Present(data, f) THEN data[f] ELSE values[f]]

ReplyBody(request, status, body) ==
    [request |-> request, status |-> status, detail |-> "", body |-> body]

NewPreferencesRow(player_id, values) ==
    PreferencesRow(Cardinality(player_preferences) + 1, player_id, values)


\* faulty variant: the defaults are returned and not stored
get_player_preferences_Unsaved(player_id) ==
    LET request == [op |-> "get_player_preferences", player_id |-> player_id]
        found == get_by_player_id(player_id)
    IN  /\ player_id \in StoredPlayers
        /\ reply' = {ReplyBody(request, 200,
                               IF found = {}
                               THEN NewPreferencesRow(player_id,
                                                      DefaultPreferences)
                               ELSE CHOOSE row \in found : TRUE)}
        /\ UNCHANGED player_preferences

\* GET /players/{player_id}/preferences (players.py 124-150)
get_player_preferences(player_id) ==
    LET request == [op |-> "get_player_preferences", player_id |-> player_id]
        found == get_by_player_id(player_id)
    IN  IF player_id \notin StoredPlayers
        THEN /\ reply' = {Reply(request, 404, "Player not found")}
             /\ UNCHANGED player_preferences
        ELSE IF Cardinality(found) > 1
        THEN /\ reply' = {Reply(request, 500, "MultipleResultsFound")}
             /\ UNCHANGED player_preferences
        ELSE IF found = {}
        THEN LET row == NewPreferencesRow(player_id, DefaultPreferences)
             IN  /\ player_preferences' = player_preferences \cup {row}
                 /\ reply' = {ReplyBody(request, 200, row)}
        ELSE /\ reply' = {ReplyBody(request, 200, CHOOSE row \in found : TRUE)}
             /\ UNCHANGED player_preferences

\* PUT /players/{player_id}/preferences (players.py 153-186); the body is
\* validated before the endpoint runs, and the commit fails on a CHECK
\* constraint the new row breaks
update_player_preferences(player_id, data) ==
    LET request == [op |-> "update_player_preferences",
                    player_id |-> player_id, data |-> data]
        found == get_by_player_id(player_id)
    IN  IF ~PreferencesValid(data)
        THEN /\ reply' = {Reply(request, 422, "validation")}
             /\ UNCHANGED player_preferences
        ELSE IF player_id \notin StoredPlayers
        THEN /\ reply' = {Reply(request, 404, "Player not found")}
             /\ UNCHANGED player_preferences
        ELSE IF Cardinality(found) > 1
        THEN /\ reply' = {Reply(request, 500, "MultipleResultsFound")}
             /\ UNCHANGED player_preferences
        ELSE LET old == IF found = {}
                        THEN NewPreferencesRow(player_id, DefaultPreferences)
                        ELSE CHOOSE row \in found : TRUE
                 new == [old EXCEPT
                            !.values = UpdatedPreferences(old.values, data)]
             IN  IF check_constraints /\ ~check_valid_ranges(new.values)
                 THEN /\ reply' = {Reply(request, 500, "IntegrityError")}
                      /\ UNCHANGED player_preferences
                 ELSE /\ player_preferences' =
                             (player_preferences \ found) \cup {new}
                      /\ reply' = {ReplyBody(request, 200, new)}

StoreInit ==
    /\ CatalogInit
    /\ RequestIdle
    /\ CompatIdle
    /\ PagesIdle
    /\ player_preferences = {}
    /\ reply = {}
    /\ titles = <<>>
    /\ check_constraints \in BOOLEAN
    /\ RaceIdle
    /\ ImportIdle

\* the reply is sent; the next request is taken after it
SendReply ==
    /\ reply # {}
    /\ reply' = {}
    /\ UNCHANGED <<catalogVars, player_preferences>>

storeFrame == <<compatVars, requestVars, first_page, titles, check_constraints,
                raceVars, importVars>>

StoreNext ==
    \/ /\ reply = {}
       /\ \E data \in GameCreates : PostGame(data)
       /\ UNCHANGED <<player_preferences, storeFrame>>
    \/ /\ reply = {}
       /\ \E id \in {StoreGameId, MissingGameId}, data \in GameUpdates :
             update_game(id, data)
       /\ UNCHANGED <<player_preferences, storeFrame>>
    \/ /\ reply = {}
       /\ \E player_id \in PlayerIds : get_player_preferences(player_id)
       /\ UNCHANGED <<catalogVars, storeFrame>>
    \/ /\ reply = {}
       /\ \E player_id \in PlayerIds, data \in PreferenceUpdates :
             update_player_preferences(player_id, data)
       /\ UNCHANGED <<catalogVars, storeFrame>>
    \/ SendReply /\ UNCHANGED storeFrame

SpecStore == StoreInit /\ [][StoreNext]_vars

-----------------------------------------------------------------------------
(* Claims about the writing endpoints, checked under SpecStore.            *)

NewReply == Get(reply')
Answered(op) == reply' # {} /\ NewReply.request.op = op

\* C24: reading the preferences of a stored player without a record stores
\* one record with the defaults for that player and returns it; reading
\* when a record exists returns that record and stores nothing.
C24_ReadCreatesDefaultOnce ==
    [][(/\ Answered("get_player_preferences")
        /\ NewReply.request.player_id \in StoredPlayers) =>
        LET player_id == NewReply.request.player_id
            found == get_by_player_id(player_id)
        IN  /\ NewReply.status = 200
            /\ found = {} =>
                   /\ player_preferences' =
                          player_preferences \cup {NewReply.body}
                   /\ NewReply.body \notin player_preferences
                   /\ NewReply.body.player_id = player_id
                   /\ NewReply.body.values = DefaultPreferences
            /\ found # {} =>
                   /\ player_preferences' = player_preferences
                   /\ NewReply.body \in found]_vars

\* the read returned the one stored record of p1, which holds the defaults
C24_Witness ==
    /\ reply # {}
    /\ LastReply.request.op = "get_player_preferences"
    /\ LastReply.status = 200
    /\ player_preferences = {LastReply.body}
    /\ LastReply.body.values = DefaultPreferences

PreferencesReplyStatuses == {200, 404, 422}

\* C26: every stored preferences record has its play-time bounds and its
\* complexity bounds in order when both are set, and an update is answered
\* 200, 404 (no such player) or 422, never with a server error.
C26_StoredRangesInOrder ==
    /\ \A row \in player_preferences : check_valid_ranges(row.values)
    /\ \A r \in reply :
           r.request.op = "update_player_preferences" =>
               r.status \in PreferencesReplyStatuses

\* C27: every stored game has min_players <= max_players.
C27_StoredGamesWellFormed ==
    \A id \in StoredIds : games[id].min_players <= games[id].max_players

-----------------------------------------------------------------------------
(* Concurrent preferences requests for one player.  Every request has a    *)
(* database session of its own (get_db): it looks the record up, and       *)
(* later, in a second step, inserts or updates and commits.  Between the   *)
(* two steps the other request may run.  The column player_id is unique    *)
(* in both ways of building the schema (unique=True in the model,          *)
(* UniqueConstraint in the migration).                                     *)

RaceRequests == {"r1", "r2"}
RacePlayer == "p1"

\* the bodies of the PUT requests of the race
RaceUpdates ==
    Only("minimum_play_time", {{30}, {60}})
    \cup Only("maximum_play_time", {{45}})

NoBody == <<>>

Running(r) == r \in DOMAIN in_flight
Started(op, data) ==
    [op |-> op, data |-> data, at |-> "lookup", found |-> {}, status |-> 0]
Put(r, state) ==
    [x \in DOMAIN in_flight \cup {r} |-> IF x = r THEN state ELSE in_flight[x]]

\* a request for the player arrives
Arrive(r, op, data) ==
    /\ ~Running(r)
    /\ in_flight' = Put(r, Started(op, data))
    /\ UNCHANGED player_preferences

\* preferences_repo.get_by_player_id(player_id): scalar_one_or_none
Lookup(r) ==
    /\ Running(r)
    /\ in_flight[r].at = "lookup"
    /\ LET found == get_by_player_id(RacePlayer)
       IN  in_flight' =
               Put(r, IF Cardinality(found) > 1
                      THEN [in_flight[r] EXCEPT !.at = "done", !.status = 500]
                      ELSE [in_flight[r] EXCEPT !.at = "write",
                                                !.found = found])
    /\ UNCHANGED player_preferences

\* faulty variant: the column is not unique
UniqueViolation_Never(player_id) == FALSE

\* the unique constraint on player_preferences.player_id refuses the insert
UniqueViolation(player_id) == get_by_player_id(player_id) # {}

Ended(r, status) ==
    Put(r, [in_flight[r] EXCEPT !.at = "done", !.status = status])

\* PlayerPreferencesRepository.create: session.add and commit
Insert(r) ==
    LET state == in_flight[r]
        values == IF state.op = "get_player_preferences"
                  THEN DefaultPreferences
                  ELSE UpdatedPreferences(DefaultPreferences, state.data)
        row == NewPreferencesRow(RacePlayer, values)
    IN  IF \/ UniqueViolation(RacePlayer)
           \/ check_constraints /\ ~check_valid_ranges(values)
        THEN /\ in_flight' = Ended(r, 500)
             /\ UNCHANGED player_preferences
        ELSE /\ player_preferences' = player_preferences \cup {row}
             /\ in_flight' = Ended(r, 200)

\* UPDATE player_preferences SET the attributes that changed WHERE id = ...
StoredRow(id) == CHOOSE row \in player_preferences : row.id = id
ChangedFields(loaded, data) ==
    {f \in DOMAIN data : f \in DOMAIN loaded /\ data[f] # loaded[f]}
UpdateRow(r) ==
    LET state == in_flight[r]
        loaded == CHOOSE row \in state.found : TRUE
        stored == StoredRow(loaded.id)
        changed == ChangedFields(loaded.values, state.data)
        values == [f \in DOMAIN stored.values |->
                      IF f \in changed THEN state.data[f]
                      ELSE stored.values[f]]
        new == [stored EXCEPT !.values = values]
    IN  IF check_constraints /\ ~check_valid_ranges(values)
        THEN /\ in_flight' = Ended(r, 500)
             /\ UNCHANGED player_preferences
        ELSE /\ player_preferences' = (player_preferences \ {stored}) \cup {new}
             /\ in_flight' = Ended(r, 200)

\* the second half of get_player_preferences and update_player_preferences
Write(r) ==
    /\ Running(r)
    /\ in_flight[r].at = "write"
    /\ IF in_flight[r].found = {}
       THEN Insert(r)
       ELSE IF in_flight[r].op = "get_player_preferences"
       THEN /\ in_flight' = Ended(r, 200)
            /\ UNCHANGED player_preferences
       ELSE UpdateRow(r)

\* the response is sent and the session closed
Finish(r) ==
    /\ Running(r)
    /\ in_flight[r].at = "done"
    /\ in_flight' = [x \in DOMAIN in_flight \ {r} |-> in_flight[x]]
    /\ UNCHANGED player_preferences

RaceInit ==
    /\ CatalogInit
    /\ RequestIdle
    /\ CompatIdle
    /\ PagesIdle
    /\ ImportIdle
    /\ player_preferences = {}
    /\ reply = {}
    /\ titles = <<>>
    /\ check_constraints \in BOOLEAN
    /\ in_flight = <<>>

raceFrame == <<compatVars, catalogVars, requestVars, first_page, reply, titles,
               check_constraints, importVars>>

RaceNext ==
    \/ \E r \in RaceRequests :
          Arrive(r, "get_player_preferences", NoBody) /\ UNCHANGED raceFrame
    \/ \E r \in RaceRequests, data \in RaceUpdates :
          Arrive(r, "update_player_preferences", data) /\ UNCHANGED raceFrame
    \/ \E r \in RaceRequests : Lookup(r) /\ UNCHANGED raceFrame
    \/ \E r \in RaceRequests : Write(r) /\ UNCHANGED raceFrame
    \/ \E r \in RaceRequests : Finish(r) /\ UNCHANGED raceFrame

SpecRace == RaceInit /\ [][RaceNext]_vars

OneRecordAtMost ==
    /\ Cardinality(get_by_player_id(RacePlayer)) <= 1
    /\ \A r \in DOMAIN in_flight :
           in_flight[r].at = "done" => in_flight[r].status \in {200, 500}

\* a request that ends with 500 leaves the table as it was
FailureWritesNothing ==
    \A r \in DOMAIN in_flight :
        (/\ r \in DOMAIN in_flight'
         /\ in_flight[r].at # "done"
         /\ in_flight'[r].status = 500)
            => player_preferences' = player_preferences

\* C29: whatever the interleaving of the reads and updates for one player,
\* the table holds at most one preferences record of that player in every
\* reachable state; a request ends with 200 or with 500, and the step that
\* ends it with 500 writes nothing.
C29_AtMostOneRecord == []OneRecordAtMost /\ [][FailureWritesNothing]_vars

\* both requests found no record; one inserted, the other was refused
C29_Witness ==
    /\ DOMAIN in_flight = RaceRequests
    /\ in_flight["r1"].at = "done" /\ in_flight["r1"].found = {}
    /\ in_flight["r2"].at = "done" /\ in_flight["r2"].found = {}
    /\ in_flight["r1"].op = "get_player_preferences"
    /\ in_flight["r2"].op = "update_player_preferences"
    /\ in_flight["r1"].status = 200
    /\ in_flight["r2"].status = 500
    /\ Cardinality(player_preferences) = 1

-----------------------------------------------------------------------------
(* The import of game sessions (session_processor.py).  One run works in   *)
(* one database session: it reads the tables of the files of the core      *)
(* players one by one, adds a GameSession for the tables it keeps, and     *)
(* commits once at the end.  A text is a sequence of pieces, a piece       *)
(* being a comma or a run of other characters.                             *)

core_players == {"dandam", "superoogie", "permagoof", "gundlach"}

Comma == ","

\* str.split(','): the pieces between the commas, as texts
RECURSIVE Split(_)
Split(text) ==
    IF \A i \in DOMAIN text : text[i] # Comma
    THEN <<text>>
    ELSE LET i == CHOOSE k \in DOMAIN text :
                      text[k] = Comma /\ \A j \in 1..(k - 1) : text[j] # Comma
         IN  <<SubSeq(text, 1, i - 1)>>
                 \o Split(SubSeq(text, i + 1, Len(text)))

\* the texts that are the name of a core player
CoreNames == {<<name>> : name \in core_players}

\* faulty variant: one core player is enough
_is_core_player_session_Any(table) ==
    Range(Split(table.player_names)) \cap CoreNames # {}

\* _is_core_player_session: at least two core players among the names
_is_core_player_session(table) ==
    /\ table.player_names # <<>>
    /\ Cardinality(Range(Split(table.player_names)) \cap CoreNames) >= 2

\* list(zip(names, ranks)) sorted by rank; list.sort is stable
RECURSIVE SortByRank(_)
SortByRank(pairs) ==
    IF pairs = <<>> THEN <<>>
    ELSE LET i == CHOOSE k \in DOMAIN pairs :
                      /\ \A j \in DOMAIN pairs : pairs[k][2] <= pairs[j][2]
                      /\ \A j \in 1..(k - 1) : pairs[j][2] > pairs[k][2]
         IN  <<pairs[i]>>
                 \o SortByRank(SubSeq(pairs, 1, i - 1)
                                   \o SubSeq(pairs, i + 1, Len(pairs)))

Zip(names, ranks) ==
    [i \in 1..Min(Len(names), Len(ranks)) |-> <<names[i], ranks[i]>>]

GameSession(table) ==
    LET player_data == SortByRank(Zip(Split(table.player_names), table.ranks))
    IN  [bga_table_id |-> Get(table.table_id),
         game_name |-> table.game_name,
         player_names |-> [i \in DOMAIN player_data |-> player_data[i][1]]]

\* select(GameSession).where(bga_table_id == ...); the select flushes the
\* session first, so the rows added in this run are among the rows it sees
Existing(table_id) ==
    {row \in game_sessions \cup pending : row.bga_table_id = table_id}

\* the tables the files may hold
TableIds == {"t1", "t2"}
GameNames == {"Catan", "Azul"}
PlayerTexts ==
    {<<>>,
     <<"dandam">>,
     <<"dandam", Comma, "zed">>,
     <<"dandam", Comma, "dandam">>,
     <<"dandam", "superoogie">>,
     <<"dandam", Comma, "superoogie">>,
     <<"zed", Comma, "permagoof", Comma, "gundlach">>}
RankLists == {<<1, 2, 3>>, <<2, 1, 1>>}
Tables ==
    [table_id : Optional(TableIds), game_name : GameNames,
     player_names : PlayerTexts, ranks : RankLists]

\* _create_game_session
_create_game_session(table) ==
    IF \/ table.table_id = {}
       \/ Existing(Get(table.table_id)) # {}
    THEN UNCHANGED pending
    ELSE pending' = pending \cup {GameSession(table)}

\* one pass of the loop of _process_json_file
ProcessTable(table) ==
    /\ table_data' = {table}
    /\ IF _is_core_player_session(table)
       THEN _create_game_session(table)
       ELSE UNCHANGED pending
    /\ UNCHANGED game_sessions

\* process_all_session_data: db_session.commit() after the last file
CommitImport ==
    /\ table_data # {}
    /\ game_sessions' = game_sessions \cup pending
    /\ pending' = {}
    /\ table_data' = {}

\* process_all_session_data: a database error, db_session.rollback()
RollbackImport ==
    /\ table_data # {}
    /\ pending' = {}
    /\ table_data' = {}
    /\ UNCHANGED game_sessions

ImportInit ==
    /\ CatalogInit
    /\ RequestIdle
    /\ CompatIdle
    /\ PagesIdle
    /\ player_preferences = {}
    /\ reply = {}
    /\ titles = <<>>
    /\ check_constraints = TRUE
    /\ RaceIdle
    /\ ImportIdle

importFrame == <<compatVars, catalogVars, requestVars, first_page, storeVars,
                 raceVars>>

ImportNext ==
    \/ \E table \in Tables : ProcessTable(table) /\ UNCHANGED importFrame
    \/ CommitImport /\ UNCHANGED importFrame
    \/ RollbackImport /\ UNCHANGED importFrame

SpecImport == ImportInit /\ [][ImportNext]_vars

CorePlayersOf(row) == Range(row.player_names) \cap CoreNames

SessionsWellFormed ==
    /\ \A a, b \in game_sessions : a.bga_table_id = b.bga_table_id => a = b
    /\ \A row \in game_sessions : Cardinality(CorePlayersOf(row)) >= 2

StoredSessionsKept == game_sessions \subseteq game_sessions'

\* C30: whatever tables the import runs read, and however often, no two
\* stored game sessions share a bga_table_id, every stored session has at
\* least two of the four core players among its players, and a stored
\* session is never changed or removed.
C30_SessionsUniqueAndKept == []SessionsWellFormed /\ [][StoredSessionsKept]_vars

\* a later run read a table whose id is stored, with another game name,
\* and added nothing
C30_Witness ==
    /\ table_data # {}
    /\ _is_core_player_session(Get(table_data))
    /\ Get(table_data).table_id = {"t1"}
    /\ pending = {}
    /\ \E row \in game_sessions :
           /\ row.bga_table_id = "t1"
           /\ row.game_name # Get(table_data).game_name
    /\ Cardinality(game_sessions) = 2

=============================================================================
